---- MODULE Spec2Model ----
(***************************************************************************)
(* randomic.h: an atomic PRNG context (smallprng) advanced by a            *)
(* compare-and-exchange retry loop.                                        *)
(*                                                                         *)
(* A uint32_t is modelled as a pair <<hi, lo>> of 16-bit halves, so that   *)
(* every operation keeps the 32-bit width of the code (wrap-around         *)
(* addition and subtraction, shifts that drop bits, bitwise or and xor).   *)
(***************************************************************************)
EXTENDS Integers, Sequences, FiniteSets, TLC

\* ------------------------------------------------------------------------
\* Bounds of the model
\* ------------------------------------------------------------------------
NThreads == 2
NContexts == 2
MaxCalls == 2
MaxDraws == 4
MaxFairDraws == 2
MaxOrderDraws == 4
MaxSeedCalls == 2
MaxSeed == 1
MaxRaw == 3
MaxWord == 1

\* ------------------------------------------------------------------------
\* uint32_t arithmetic on <<hi, lo>> halves
\* ------------------------------------------------------------------------
Half == 65536

U32(hi, lo) == <<hi, lo>>

Hi(x) == x[1]

Lo(x) == x[2]

\* x + y on uint32_t (wraps modulo 2^32)
Add(x, y) ==
    LET lo == Lo(x) + Lo(y)
        hi == Hi(x) + Hi(y) + (lo \div Half)
    IN  <<hi % Half, lo % Half>>

\* x - y on uint32_t (wraps modulo 2^32)
Sub(x, y) ==
    LET lo == Lo(x) - Lo(y) + Half
        hi == Hi(x) - Hi(y) + (Half - 1) + (lo \div Half)
    IN  <<hi % Half, lo % Half>>

\* x << n on uint32_t, 0 < n < 32: the bits shifted out are lost
Shl(x, n) ==
    IF n >= 16
    THEN <<(Lo(x) % (2^(32 - n))) * (2^(n - 16)), 0>>
    ELSE <<(Hi(x) % (2^(16 - n))) * (2^n) + (Lo(x) \div (2^(16 - n))),
           (Lo(x) % (2^(16 - n))) * (2^n)>>

\* x >> n on uint32_t, 0 < n < 32: zero fill
Shr(x, n) ==
    IF n >= 16
    THEN <<0, Hi(x) \div (2^(n - 16))>>
    ELSE <<Hi(x) \div (2^n),
           (Hi(x) % (2^n)) * (2^(16 - n)) + (Lo(x) \div (2^n))>>

\* The operands of the recursive and of the bitwise operators are bound by
\* CHOOSE over a singleton, which evaluates each of them once.
RECURSIVE Or16(_, _)
Or16(x, y) ==
    IF x = 0 THEN y
    ELSE IF y = 0 THEN x
    ELSE (IF x % 2 = 1 \/ y % 2 = 1 THEN 1 ELSE 0)
         + 2 * (CHOOSE r \in {Or16(p, q) : p \in {x \div 2}, q \in {y \div 2}} : TRUE)

RECURSIVE Xor16(_, _)
Xor16(x, y) ==
    IF x = 0 THEN y
    ELSE IF y = 0 THEN x
    ELSE ((x + y) % 2)
         + 2 * (CHOOSE r \in {Xor16(p, q) : p \in {x \div 2}, q \in {y \div 2}} : TRUE)

\* x | y on uint32_t
Or(x, y) ==
    CHOOSE r \in {<<Or16(Hi(p), Hi(q)), Or16(Lo(p), Lo(q))>> : p \in {x}, q \in {y}} : TRUE

\* x ^ y on uint32_t
Xor(x, y) ==
    CHOOSE r \in {<<Xor16(Hi(p), Hi(q)), Xor16(Lo(p), Lo(q))>> : p \in {x}, q \in {y}} : TRUE

\* ------------------------------------------------------------------------
\* struct randomic_ctx and randomicStep
\* ------------------------------------------------------------------------
randomic_ctx(a, b, c, d) == [a |-> a, b |-> b, c |-> c, d |-> d]

\* advances the PRNG state by a single step:
\*   uint32_t e = ctx.a - ((ctx.b << 27)|(ctx.b >> 5));
\*   ctx.a = ctx.b ^ ((ctx.c << 17)|(ctx.c >> 15));
\*   ctx.b = ctx.c + ctx.d;  ctx.c = ctx.d + e;  ctx.d = e + ctx.a;
\* (b and c are computed from the old c and d, d from e and the new a)
\*
\* a step whose last assignment reads the a the function was called with
randomicStepOldA(ctx) ==
    LET Assigned(e, a) ==
            randomic_ctx(a, Add(ctx.c, ctx.d), Add(ctx.d, e), Add(e, ctx.a))
    IN  CHOOSE r \in {Assigned(e, a) :
                        e \in {Sub(ctx.a, Or(Shl(ctx.b, 27), Shr(ctx.b, 5)))},
                        a \in {Xor(ctx.b, Or(Shl(ctx.c, 17), Shr(ctx.c, 15)))}} : TRUE

randomicStep(ctx) ==
    LET Assigned(e, a) ==
            randomic_ctx(a, Add(ctx.c, ctx.d), Add(ctx.d, e), Add(e, a))
    IN  CHOOSE r \in {Assigned(e, a) :
                        e \in {Sub(ctx.a, Or(Shl(ctx.b, 27), Shr(ctx.b, 5)))},
                        a \in {Xor(ctx.b, Or(Shl(ctx.c, 17), Shr(ctx.c, 15)))}} : TRUE

RECURSIVE StepN(_, _)
StepN(n, s) ==
    IF n = 0 THEN s
    ELSE CHOOSE t \in {randomicStep(p) : p \in {StepN(n - 1, s)}} : TRUE

\* ------------------------------------------------------------------------
\* State
\* ------------------------------------------------------------------------
VARIABLES
    rdic,      \* rdic[c]: the _Atomic struct randomic_ctx of context c
    pc,        \* pc[t]: where thread t is inside the function it executes
    fn,        \* fn[t]: the public function thread t called last
    arg,       \* arg[t]: the struct randomic* argument of that call
    seed,      \* seed[t]: the seed argument of randomicSeed
    ctx,       \* ctx[t]: the local ctx of randomicSeed / randomicNext
    ntx,       \* ntx[t]: the local ntx of randomicNext
    i,         \* i[t]: the loop counter of randomicSeed
    result,    \* result[t]: the value returned by t's last finished call
    ncalls,    \* ncalls[t]: draw calls thread t has started
    nseeds,    \* randomicSeed calls started so far
    hist,      \* hist[c]: history of context c since its latest seed store
               \*   (chain: the states installed by exchanges, in order)
    prev,      \* prev[c]: hist[c] as it was when the latest seed store happened
    call       \* call[t]: what t's current or last randomicNext did
               \*   (floor: the greatest stream position returned before the
               \*   call was made, kept until the call returns)

vars == <<rdic, pc, fn, arg, seed, ctx, ntx, i, result, ncalls, nseeds,
          hist, prev, call>>

Threads == 1 .. NThreads

Contexts == 1 .. NContexts

Zero == U32(0, 0)

\* the seeds callers pass: 0, 0xFFFFFFFF, 0xFFFFFFFE, ...
Seeds == {Sub(Zero, U32(0, s)) : s \in 0 .. MaxSeed}

ZeroCtx == randomic_ctx(Zero, Zero, Zero, Zero)

\* contents of struct randomic number c before anybody seeds it: context 1
\* is zeroed storage, the others hold leftovers; randomicSeed overwrites them
Unseeded(c) == randomic_ctx(U32(0, c - 1), U32(c - 1, 0), U32(0, c - 1), U32(c - 1, 0))

Mappers == {"randomicFloatCO", "randomicFloatCC", "randomicDoubleCO", "randomicDoubleCC"}

NoResult == <<>>

NoHist == [seeded |-> FALSE, seed |-> Zero, S0 |-> ZeroCtx, nexch |-> 0,
           nret |-> 0, rets |-> {}, clean |-> FALSE, chain |-> <<>>]

NoCall == [nexch |-> 0, pos |-> 0, failed |-> FALSE,
           replaced |-> ZeroCtx, installed |-> ZeroCtx, floor |-> 0]

\* the greatest stream position among the draws in rets, 0 when there is none
MaxPos(rets) ==
    IF rets = {} THEN 0
    ELSE CHOOSE p \in {x[1] : x \in rets} : \A y \in rets : y[1] <= p

\* some thread is inside randomicNext on context c
InFlight(c) ==
    \E t \in Threads : arg[t] = c /\ pc[t] \in {"next_load", "next_cas", "next_ret"}

Init ==
    /\ rdic = [c \in Contexts |-> Unseeded(c)]
    /\ pc = [t \in Threads |-> "idle"]
    /\ fn = [t \in Threads |-> "none"]
    /\ arg = [t \in Threads |-> 1]
    /\ seed = [t \in Threads |-> Zero]
    /\ ctx = [t \in Threads |-> ZeroCtx]
    /\ ntx = [t \in Threads |-> ZeroCtx]
    /\ i = [t \in Threads |-> 0]
    /\ result = [t \in Threads |-> NoResult]
    /\ ncalls = [t \in Threads |-> 0]
    /\ nseeds = 0
    /\ hist = [c \in Contexts |-> NoHist]
    /\ prev = [c \in Contexts |-> NoHist]
    /\ call = [t \in Threads |-> NoCall]

\* ------------------------------------------------------------------------
\* randomicSeed
\* ------------------------------------------------------------------------
SeedConstA == U32(61930, 24301)    \* 0xf1ea5eed

SeedRounds == 20

\* a seeding that starts from a = 0 instead of 0xf1ea5eed
SeedInitZeroA(s) == randomic_ctx(Zero, s, s, s)

\* a seeding that leaves ctx.d unset (zero)
SeedInitWithoutD(s) == randomic_ctx(SeedConstA, s, s, Zero)

\* ctx.a = 0xf1ea5eed; ctx.b = ctx.c = ctx.d = seed;
SeedInit(s) == randomic_ctx(SeedConstA, s, s, s)

\* the call randomicSeed(&rdic[c], s): the local ctx is built, i = 0
CallSeed(t, c, s) ==
    /\ pc[t] = "idle"
    /\ nseeds < MaxSeedCalls
    /\ nseeds' = nseeds + 1
    /\ pc' = [pc EXCEPT ![t] = "seed_loop"]
    /\ fn' = [fn EXCEPT ![t] = "randomicSeed"]
    /\ arg' = [arg EXCEPT ![t] = c]
    /\ seed' = [seed EXCEPT ![t] = s]
    /\ ctx' = [ctx EXCEPT ![t] = SeedInit(s)]
    /\ i' = [i EXCEPT ![t] = 0]
    /\ result' = [result EXCEPT ![t] = NoResult]
    /\ UNCHANGED <<rdic, ntx, ncalls, hist, prev, call>>

\* a warm-up that steps the shared context in place
SeedLoopInPlace(t) ==
    /\ pc[t] = "seed_loop"
    /\ i[t] < SeedRounds
    /\ ctx' = [ctx EXCEPT ![t] = randomicStep(ctx[t])]
    /\ rdic' = [rdic EXCEPT ![arg[t]] = randomicStep(ctx[t])]
    /\ i' = [i EXCEPT ![t] = i[t] + 1]
    /\ UNCHANGED <<pc, fn, arg, seed, ntx, result, ncalls, nseeds,
                   hist, prev, call>>

\* one iteration of  for (int i = 0; i < 20; i++) ctx = randomicStep(ctx);
SeedLoop(t) ==
    /\ pc[t] = "seed_loop"
    /\ i[t] < SeedRounds
    /\ ctx' = [ctx EXCEPT ![t] = randomicStep(ctx[t])]
    /\ i' = [i EXCEPT ![t] = i[t] + 1]
    /\ UNCHANGED <<rdic, pc, fn, arg, seed, ntx, result, ncalls, nseeds,
                   hist, prev, call>>

\* a store that does not wait for the end of the warm-up loop
SeedLoopDoneEarly(t) == i[t] >= 0

\* the loop condition i < 20 no longer holds
SeedLoopDone(t) == ~(i[t] < SeedRounds)

\* a store that writes only b, c and d and keeps the context's old word a
StoredValueKeepsA(t) == [ctx[t] EXCEPT !.a = rdic[arg[t]].a]

\* a store that happens only the first time a context is seeded
StoredValueOnce(t) == IF hist[arg[t]].seeded THEN rdic[arg[t]] ELSE ctx[t]

\* the value atomic_store writes into the context: all four words of ctx
StoredValue(t) == ctx[t]

\* loop exit, atomic_store(&rdic->ctx, ctx), return
SeedStore(t) ==
    /\ pc[t] = "seed_loop"
    /\ SeedLoopDone(t)
    /\ rdic' = [rdic EXCEPT ![arg[t]] = StoredValue(t)]
    /\ prev' = [prev EXCEPT ![arg[t]] =
                   [hist[arg[t]] EXCEPT !.clean = @ /\ ~InFlight(arg[t])]]
    /\ hist' = [hist EXCEPT ![arg[t]] =
                   [seeded |-> TRUE, seed |-> seed[t], S0 |-> StoredValue(t),
                    nexch |-> 0, nret |-> 0, rets |-> {},
                    clean |-> ~InFlight(arg[t]), chain |-> <<>>]]
    /\ pc' = [pc EXCEPT ![t] = "idle"]
    /\ ctx' = [ctx EXCEPT ![t] = ZeroCtx]
    /\ i' = [i EXCEPT ![t] = 0]
    /\ UNCHANGED <<fn, arg, seed, ntx, result, ncalls, nseeds, call>>

\* ------------------------------------------------------------------------
\* randomicNext
\* ------------------------------------------------------------------------
\* thread t calls the draw function f on context c; floor notes the greatest
\* stream position that had been returned when the call was made
Invoke(t, c, f, floor) ==
    /\ pc[t] = "idle"
    /\ ncalls[t] < MaxCalls
    /\ ncalls' = [ncalls EXCEPT ![t] = ncalls[t] + 1]
    /\ pc' = [pc EXCEPT ![t] = "next_load"]
    /\ fn' = [fn EXCEPT ![t] = f]
    /\ arg' = [arg EXCEPT ![t] = c]
    /\ result' = [result EXCEPT ![t] = NoResult]
    /\ call' = [call EXCEPT ![t] = [NoCall EXCEPT !.floor = floor]]
    /\ UNCHANGED <<rdic, seed, ctx, ntx, i, nseeds, hist, prev>>

\* a draw function f is called on a seeded context (the documented usage)
CallDraw(t, c, f) == hist[c].seeded /\ Invoke(t, c, f, 0)

\* randomicNext is called on a context that was never seeded
CallNextUnseeded(t, c) == ~hist[c].seeded /\ Invoke(t, c, "randomicNext", 0)

\* randomicNext is called on a seeded context, the call's floor noted
CallNextTimed(t, c) ==
    hist[c].seeded /\ Invoke(t, c, "randomicNext", MaxPos(hist[c].rets))

CallNext(t, c) == CallDraw(t, c, "randomicNext")

CallMapper(t, c, f) == f \in Mappers /\ CallDraw(t, c, f)

\* struct randomic_ctx ctx = atomic_load(&rdic->ctx)
NextLoad(t) ==
    /\ pc[t] = "next_load"
    /\ ctx' = [ctx EXCEPT ![t] = rdic[arg[t]]]
    /\ pc' = [pc EXCEPT ![t] = "next_cas"]
    /\ UNCHANGED <<rdic, fn, arg, seed, ntx, i, result, ncalls, nseeds,
                   hist, prev, call>>

\* a candidate that is two steps ahead of ctx
DesiredTwice(t) == randomicStep(randomicStep(ctx[t]))

\* a candidate computed once, before the loop, and kept for every retry
DesiredKept(t) == IF ntx[t] = ZeroCtx THEN randomicStep(ctx[t]) ELSE ntx[t]

\* the desired value of the exchange: (ntx = randomicStep(ctx))
Desired(t) == randomicStep(ctx[t])

\* an exchange that stores without comparing (a plain atomic_store)
CasEqualAlways(t) == rdic[arg[t]] = rdic[arg[t]]

\* the comparison of atomic_compare_exchange_weak: object against expected
CasEqual(t) == rdic[arg[t]] = ctx[t]

\* the exchange succeeds: the object equals ctx and is replaced by ntx
CasSuccess(t) ==
    /\ pc[t] = "next_cas"
    /\ CasEqual(t)
    /\ ntx' = [ntx EXCEPT ![t] = Desired(t)]
    /\ rdic' = [rdic EXCEPT ![arg[t]] = Desired(t)]
    /\ pc' = [pc EXCEPT ![t] = "next_ret"]
    /\ hist' = [hist EXCEPT ![arg[t]] =
                   [@ EXCEPT !.nexch = @ + 1, !.chain = Append(@, Desired(t))]]
    /\ call' = [call EXCEPT ![t] =
                   [nexch |-> @.nexch + 1, pos |-> hist[arg[t]].nexch + 1,
                    failed |-> @.failed,
                    replaced |-> rdic[arg[t]], installed |-> rdic'[arg[t]],
                    floor |-> @.floor]]
    /\ UNCHANGED <<fn, arg, seed, ctx, i, result, ncalls, nseeds, prev>>

\* a failed exchange that leaves its expected argument as it was
RefreshedNever(t) == ctx[t]

\* what a failed exchange writes into its expected argument ctx: the object
Refreshed(t) == rdic[arg[t]]

\* a failed exchange that has nevertheless written its candidate
CasFailStores(t) ==
    /\ pc[t] = "next_cas"
    /\ ~CasEqual(t)
    /\ ntx' = [ntx EXCEPT ![t] = Desired(t)]
    /\ ctx' = [ctx EXCEPT ![t] = Refreshed(t)]
    /\ rdic' = [rdic EXCEPT ![arg[t]] = Desired(t)]
    /\ call' = [call EXCEPT ![t].failed = TRUE]
    /\ UNCHANGED <<pc, fn, arg, seed, i, result, ncalls, nseeds, hist, prev>>

\* the exchange fails: the object differs from ctx, ctx receives the object
CasFail(t) ==
    /\ pc[t] = "next_cas"
    /\ ~CasEqual(t)
    /\ ntx' = [ntx EXCEPT ![t] = Desired(t)]
    /\ ctx' = [ctx EXCEPT ![t] = Refreshed(t)]
    /\ call' = [call EXCEPT ![t].failed = TRUE]
    /\ UNCHANGED <<rdic, pc, fn, arg, seed, i, result, ncalls, nseeds,
                   hist, prev>>

\* the weak exchange fails spuriously although the object equals ctx
CasSpurious(t) ==
    /\ pc[t] = "next_cas"
    /\ CasEqual(t)
    /\ ntx' = [ntx EXCEPT ![t] = Desired(t)]
    /\ ctx' = [ctx EXCEPT ![t] = Refreshed(t)]
    /\ UNCHANGED <<rdic, pc, fn, arg, seed, i, result, ncalls, nseeds,
                   hist, prev, call>>

\* a return of the d word of the state that was read, not of the candidate
NextValueOfRead(t) == ctx[t].d

\* return ntx.d
NextValue(t) == ntx[t].d

\* randomicNext returns to the caller of the public function
Return(t, v) ==
    /\ pc[t] = "next_ret"
    /\ result' = [result EXCEPT ![t] = v]
    /\ hist' = [hist EXCEPT ![arg[t]] =
                   [@ EXCEPT !.nret = @ + 1,
                             !.rets = @ \cup {<<call[t].pos, NextValue(t)>>}]]
    /\ pc' = [pc EXCEPT ![t] = "idle"]
    /\ ctx' = [ctx EXCEPT ![t] = ZeroCtx]
    /\ ntx' = [ntx EXCEPT ![t] = ZeroCtx]
    /\ call' = [call EXCEPT ![t] = [@ EXCEPT !.failed = FALSE, !.floor = 0]]
    /\ UNCHANGED <<rdic, fn, arg, seed, i, ncalls, nseeds, prev>>

NextReturn(t) == fn[t] = "randomicNext" /\ Return(t, NextValue(t))

\* ------------------------------------------------------------------------
\* randomicFloatCO, randomicFloatCC, randomicDoubleCO, randomicDoubleCC
\*
\* A float or double result is the quotient num / den of two integers held
\* as <<hi, lo>> halves (hi = 65536 for 2^32).  exact tells whether the
\* quotient is the result as it stands (den a power of two, or num one of
\* 0 and den) or the result is that quotient rounded to a double.
\* ------------------------------------------------------------------------
RECURSIVE BitLen(_)
BitLen(n) == IF n = 0 THEN 0 ELSE 1 + BitLen(n \div 2)

\* (float)x for a uint32_t x: round to nearest, ties to even, 24-bit significand
ToFloat(x) ==
    IF Hi(x) < 256 THEN x
    ELSE LET unit == 2^(BitLen(Hi(x)) - 8)
             rem  == Lo(x) % unit
             odd  == (Lo(x) \div unit) % 2 = 1
             up   == 2 * rem > unit \/ (2 * rem = unit /\ odd)
             lo   == Lo(x) - rem + (IF up THEN unit ELSE 0)
         IN  <<Hi(x) + (lo \div Half), lo % Half>>

\* (double)x for a uint32_t x: every 32-bit value is a double
ToDouble(x) == x

Quotient(num, den) ==
    [num |-> num, den |-> den,
     exact |-> (Lo(den) = 0 /\ Hi(den) \in {256, Half}) \/ num = den \/ num = Zero]

\* 16777216.0f and 4294967296.0
TwoPow24 == U32(256, 0)

TwoPow32 == U32(Half, 0)

UINT32_MAX == U32(Half - 1, Half - 1)

\* a conversion of all 32 bits, (float)raw/4294967296.0f, which rounds up to 1.0
randomicFloatCOAllBits(raw) == Quotient(ToFloat(raw), TwoPow32)

\* (float)(raw >> 8)/16777216.0f
randomicFloatCO(raw) == Quotient(ToFloat(Shr(raw, 8)), TwoPow24)

\* a division by 4294967295 itself, not by its conversion to float
randomicFloatCCExactDivisor(raw) == Quotient(ToFloat(raw), UINT32_MAX)

\* (float)raw/(float)UINT32_MAX
randomicFloatCC(raw) == Quotient(ToFloat(raw), ToFloat(UINT32_MAX))

\* (double)raw/4294967296.0
randomicDoubleCO(raw) == Quotient(ToDouble(raw), TwoPow32)

\* (double)raw/(double)UINT32_MAX
randomicDoubleCC(raw) == Quotient(ToDouble(raw), ToDouble(UINT32_MAX))

MapValue(f, raw) ==
    CASE f = "randomicFloatCO" -> randomicFloatCO(raw)
      [] f = "randomicFloatCC" -> randomicFloatCC(raw)
      [] f = "randomicDoubleCO" -> randomicDoubleCO(raw)
      [] f = "randomicDoubleCC" -> randomicDoubleCC(raw)

\* a mapper that reads the d word of the context again after its draw
MapperRawPeek(t) == rdic[arg[t]].d

\* the raw draw a mapper converts: the value its randomicNext call returned
MapperRaw(t) == NextValue(t)

\* randomicNext returns into the mapper, which converts and returns
MapperReturn(t) == fn[t] \in Mappers /\ Return(t, MapValue(fn[t], MapperRaw(t)))

\* the conversion of a mapper applied to a given raw draw
Convert(t, f, raw) ==
    /\ pc[t] = "idle"
    /\ fn' = [fn EXCEPT ![t] = f]
    /\ ntx' = [ntx EXCEPT ![t] = [ZeroCtx EXCEPT !.d = raw]]
    /\ result' = [result EXCEPT ![t] = MapValue(f, raw)]
    /\ UNCHANGED <<rdic, pc, arg, seed, ctx, i, ncalls, nseeds, hist, prev, call>>

\* ------------------------------------------------------------------------
\* Specifications
\* ------------------------------------------------------------------------
SeedSteps ==
    \/ \E t \in Threads : SeedLoop(t)
    \/ \E t \in Threads : SeedStore(t)

ExchangeSteps ==
    \/ \E t \in Threads : NextLoad(t)
    \/ \E t \in Threads : CasSuccess(t)
    \/ \E t \in Threads : CasFail(t)
    \/ \E t \in Threads : CasSpurious(t)

\* the draw calls all threads have started
RECURSIVE CallsUpTo(_)
CallsUpTo(n) == IF n = 0 THEN 0 ELSE ncalls[n] + CallsUpTo(n - 1)

TotalCalls == CallsUpTo(NThreads)

\* Spec: thread 1 seeds context 1 once, then the threads draw from it, each
\* at most MaxCalls times and all together at most MaxDraws times
Next ==
    \/ \E s \in Seeds : nseeds = 0 /\ CallSeed(1, 1, s)
    \/ SeedSteps
    \/ \E t \in Threads : TotalCalls < MaxDraws /\ CallNext(t, 1)
    \/ ExchangeSteps
    \/ \E t \in Threads : NextReturn(t)

Spec == Init /\ [][Next]_vars

\* SpecFair: as Spec, with at most MaxFairDraws draws, threads that keep
\* taking steps inside randomicNext, and a weak exchange that does not fail
\* spuriously for ever
NextFair ==
    \/ \E s \in Seeds : nseeds = 0 /\ CallSeed(1, 1, s)
    \/ SeedSteps
    \/ \E t \in Threads : TotalCalls < MaxFairDraws /\ CallNext(t, 1)
    \/ ExchangeSteps
    \/ \E t \in Threads : NextReturn(t)

Fairness ==
    \A t \in Threads :
        /\ WF_vars(NextLoad(t))
        /\ WF_vars(CasSuccess(t))
        /\ WF_vars(CasFail(t))
        /\ WF_vars(NextReturn(t))

SpecFair == Init /\ [][NextFair]_vars /\ Fairness

\* SpecOrder: thread 1 seeds context 1 once, then threads 1 and 2 draw from
\* it, at most MaxOrderDraws times in all, each call noting what had been
\* returned when it was made
NextOrder ==
    \/ \E s \in Seeds : nseeds = 0 /\ CallSeed(1, 1, s)
    \/ SeedSteps
    \/ \E t \in {1, 2} : TotalCalls < MaxOrderDraws /\ CallNextTimed(t, 1)
    \/ ExchangeSteps
    \/ \E t \in Threads : NextReturn(t)

SpecOrder == Init /\ [][NextOrder]_vars

\* SpecZero: thread 2 draws from context 1, zeroed storage that nobody
\* seeds, while thread 1 seeds context 2 once and draws from it
NextZero ==
    \/ \E s \in Seeds : nseeds = 0 /\ CallSeed(1, 2, s)
    \/ SeedLoop(1)
    \/ SeedStore(1)
    \/ CallNextUnseeded(2, 1)
    \/ CallNext(1, 2)
    \/ \E t \in {1, 2} : NextLoad(t)
    \/ \E t \in {1, 2} : CasSuccess(t)
    \/ \E t \in {1, 2} : CasSpurious(t)
    \/ \E t \in {1, 2} : NextReturn(t)

SpecZero == Init /\ [][NextZero]_vars

\* SpecRace: thread 1 seeds and re-seeds context 1 while thread 2 draws from it
NextRace ==
    \/ \E s \in Seeds : CallSeed(1, 1, s)
    \/ SeedSteps
    \/ CallNext(2, 1)
    \/ ExchangeSteps
    \/ \E t \in Threads : NextReturn(t)

SpecRace == Init /\ [][NextRace]_vars

\* SpecSeq: thread 1 alone seeds, re-seeds and draws from every context
NextSeq ==
    \/ \E c \in Contexts, s \in Seeds : CallSeed(1, c, s)
    \/ SeedLoop(1)
    \/ SeedStore(1)
    \/ \E c \in Contexts : CallNext(1, c)
    \/ NextLoad(1)
    \/ CasSuccess(1)
    \/ CasSpurious(1)
    \/ NextReturn(1)

SpecSeq == Init /\ [][NextSeq]_vars

\* SpecMap: thread 1 seeds context 1 once and calls the mappers on it while
\* thread 2 draws raw values from the same context
NextMap ==
    \/ \E s \in Seeds : nseeds = 0 /\ CallSeed(1, 1, s)
    \/ SeedSteps
    \/ \E f \in Mappers : CallMapper(1, 1, f)
    \/ CallNext(2, 1)
    \/ ExchangeSteps
    \/ \E t \in Threads : NextReturn(t)
    \/ \E t \in Threads : MapperReturn(t)

SpecMap == Init /\ [][NextMap]_vars

\* the raw draws the conversions are applied to: around 0, 2^8, 2^24, 2^31
\* and 2^32 - 1, and the least and greatest draw of a FloatCO value
RawInputs ==
    UNION {{U32(0, k), U32(0, 256 + k), U32(0, 255 - k),
            U32(256, k), U32(255, Half - 1 - k),
            U32(32768, k), U32(32767, Half - 1 - k),
            U32(Half - 1, Half - 1 - k), U32(Half - 1, Half - 256 + k),
            U32(Half - 1, Half - 128 - k), U32(Half - 1, Half - 129 + k)}
           : k \in 0 .. MaxRaw}

\* SpecPure: the four conversions applied to chosen raw draws
NextPure == \E f \in Mappers, raw \in RawInputs : Convert(1, f, raw)

SpecPure == Init /\ [][NextPure]_vars

\* the call randomicStep(in): the argument is held in ctx, the result in ntx
ApplyStep(t, in) ==
    /\ pc[t] = "idle"
    /\ fn' = [fn EXCEPT ![t] = "randomicStep"]
    /\ ctx' = [ctx EXCEPT ![t] = in]
    /\ ntx' = [ntx EXCEPT ![t] = randomicStep(in)]
    /\ UNCHANGED <<rdic, pc, arg, seed, i, result, ncalls, nseeds, hist, prev, call>>

\* the words the arguments of randomicStep are built from: 0, 1, 0xf1ea5eed,
\* 0xFFFFFFFF, 0xFFFEFFFF, ...
StepWords ==
    {Zero, U32(0, 1), U32(61930, 24301)}
        \cup {Sub(Zero, U32(k - 1, 1)) : k \in 1 .. MaxWord}

\* SpecStep: randomicStep applied to every state built from StepWords
NextStep ==
    \E a \in StepWords, b \in StepWords, c \in StepWords, d \in StepWords :
        ApplyStep(1, randomic_ctx(a, b, c, d))

SpecStep == Init /\ [][NextStep]_vars

\* ------------------------------------------------------------------------
\* Properties
\* ------------------------------------------------------------------------
\* thread t has returned from the draw function it called
Returned(t) == pc[t] = "idle" /\ fn[t] \in Mappers \cup {"randomicNext"}

\* step^20(0xF1EA5EED, seed, seed, seed)
Expected20(s) == StepN(20, randomic_ctx(U32(61930, 24301), s, s, s))

\* the d words of the 1st..n-th states after S0, each with its position
StreamDraws(S0, n) == {<<p, StepN(p, S0).d>> : p \in 1 .. n}

\* C1: the value a randomicNext call returns is the d word of the state its
\* own successful exchange installed, and that state is the step of the state
\* the exchange replaced; the call made exactly one successful exchange.
C1_ReturnsOwnInstalled ==
    \A t \in Threads :
        /\ (pc[t] = "next_ret" /\ fn[t] = "randomicNext") =>
              /\ call[t].nexch = 1
              /\ call[t].installed = randomicStep(call[t].replaced)
              /\ NextValue(t) = call[t].installed.d
        /\ (Returned(t) /\ fn[t] = "randomicNext") =>
              /\ call[t].nexch = 1
              /\ result[t] = call[t].installed.d

\* the exchange of a call has succeeded after an attempt of the same call had
\* failed on a state another thread had replaced, and another thread has
\* installed a further state since; the call is about to return
C1_Witness ==
    \E t \in Threads :
        /\ pc[t] = "next_ret" /\ fn[t] = "randomicNext"
        /\ call[t].failed
        /\ call[t].pos > 1
        /\ rdic[1] # call[t].installed
        /\ NextValue(t) = call[t].installed.d

\* C2: when the threads have completed their calls on the shared context (n
\* calls in all, N*M when each of the N threads made its M calls), exactly n
\* exchanges have succeeded, the context holds step^n of the seeded state,
\* and the returned values are the d words of the stream positions 1..n,
\* each position returned by exactly one call.
C2_NoLostNoDuplicate ==
    (hist[1].seeded /\ ~InFlight(1)) =>
        /\ hist[1].nexch = TotalCalls
        /\ hist[1].nret = TotalCalls
        /\ rdic[1] = StepN(TotalCalls, hist[1].S0)
        /\ hist[1].rets = StreamDraws(hist[1].S0, TotalCalls)
        /\ Cardinality(hist[1].rets) = TotalCalls

\* all the draws allowed have been completed, by every thread some, and the
\* last two stream positions went to different threads
C2_Witness ==
    /\ hist[1].seeded /\ ~InFlight(1)
    /\ TotalCalls = MaxDraws
    /\ hist[1].nret = MaxDraws
    /\ \A t \in Threads : ncalls[t] > 0
    /\ \E t \in Threads, u \in Threads :
          t # u /\ call[t].pos = MaxDraws /\ call[u].pos = MaxDraws - 1

\* C3: once seeded, the context holds step^k of the seeded state, k being
\* the number of successful exchanges so far, and every change of the
\* context's state replaces a state s by step(s).
C3_LinearChain ==
    [][\A c \in Contexts :
          /\ (hist[c].seeded /\ rdic'[c] # rdic[c]) =>
                 /\ rdic'[c] = randomicStep(rdic[c])
                 /\ hist'[c].nexch = hist[c].nexch + 1
                 /\ rdic'[c] = StepN(hist'[c].nexch, hist'[c].S0)
          /\ (hist[c].seeded /\ rdic'[c] = rdic[c]) =>
                 /\ hist'[c].nexch = hist[c].nexch
                 /\ hist'[c].S0 = hist[c].S0
          /\ (~hist[c].seeded /\ hist'[c].seeded) =>
                 /\ hist'[c].nexch = 0
                 /\ rdic'[c] = hist'[c].S0]_vars

\* the chain has grown to its full length by exchanges of every thread
C3_Witness ==
    /\ hist[1].seeded
    /\ hist[1].nexch = MaxDraws
    /\ \A t \in Threads : call[t].pos > 0
    /\ rdic[1] = StepN(MaxDraws, hist[1].S0)
    /\ rdic[1] # hist[1].S0

\* C4: randomicSeed(ctx, seed) starts from a = 0xF1EA5EED, b = c = d = seed,
\* steps exactly 20 times and leaves the context holding
\* step^20(0xF1EA5EED, seed, seed, seed), whatever the context held before.
C4_SeedResult ==
    /\ \A t \in Threads :
          /\ (pc[t] = "seed_loop" /\ i[t] = 0) =>
                 ctx[t] = randomic_ctx(U32(61930, 24301), seed[t], seed[t], seed[t])
          /\ pc[t] = "seed_loop" => i[t] <= 20
          /\ (pc[t] = "idle" /\ fn[t] = "randomicSeed") =>
                 /\ rdic[arg[t]] = Expected20(seed[t])
                 /\ hist[arg[t]].S0 = rdic[arg[t]]
                 /\ hist[arg[t]].seed = seed[t]

\* a seeding has returned on a context that held a drawn-from stream of
\* another seed before
C4_Witness ==
    \E t \in Threads :
        /\ pc[t] = "idle" /\ fn[t] = "randomicSeed"
        /\ prev[arg[t]].seeded /\ prev[arg[t]].nexch > 0
        /\ prev[arg[t]].seed # seed[t]
        /\ seed[t] # Zero
        /\ rdic[arg[t]] = Expected20(seed[t])

\* C5: randomicSeed writes the context once, as a whole: every change of a
\* context is either the store of a complete step^20 seeded state or an
\* exchange that replaces the complete state by its step (never the
\* pre-warm-up state, an intermediate warm-up state or a mix of words), the
\* warm-up leaves the context untouched, and what a thread loads is the
\* complete state the context holds at that moment.
C5_SeedPublishesWhole ==
    [][/\ \A c \in Contexts :
             rdic'[c] # rdic[c] =>
                 \/ rdic'[c] = randomicStep(rdic[c])
                 \/ \E t \in Threads :
                        /\ pc[t] = "seed_loop" /\ pc'[t] = "idle" /\ arg[t] = c
                        /\ rdic'[c] = Expected20(seed[t])
       /\ \A t \in Threads :
             /\ (pc[t] = "seed_loop" /\ pc'[t] = "seed_loop") =>
                    rdic'[arg[t]] \in {rdic[arg[t]], randomicStep(rdic[arg[t]])}
             /\ (pc[t] = "next_load" /\ pc'[t] = "next_cas") =>
                    ctx'[t] = rdic[arg[t]]
             /\ (pc[t] = "next_cas" /\ ctx'[t] # ctx[t]) =>
                    ctx'[t] = rdic[arg[t]]]_vars

\* thread 2 loaded the context while thread 1 was inside randomicSeed, and
\* the store of that call has since replaced what thread 2 holds
C5_Witness ==
    /\ pc[2] = "next_cas"
    /\ pc[1] = "idle" /\ fn[1] = "randomicSeed"
    /\ ~hist[1].clean
    /\ hist[1].nexch = 0
    /\ ctx[2] # rdic[1]
    /\ rdic[1] = Expected20(hist[1].seed)

\* the draws returned on a context in position order agree with those of h
SameDraws(g, h) ==
    \A x \in g.rets, y \in h.rets : x[1] = y[1] => x[2] = y[2]

C8_LockFree ==
    \A n \in 0 .. MaxFairDraws :
        ((\E t \in Threads : pc[t] = "next_cas") /\ hist[1].nret = n)
            ~> (hist[1].nret > n)

\* a thread is in the retry loop after a failed attempt while a call of
\* another thread has returned
C8_Witness ==
    \E t \in Threads :
        /\ pc[t] = "next_cas"
        /\ call[t].failed
        /\ ctx[t] = rdic[1]
        /\ hist[1].nret > 0

\* C9: a mapper call makes exactly one randomicNext draw: one successful
\* exchange, which replaces the context's state by its step, and the result
\* is the mapper's conversion of the d word that exchange installed.
C9_MapperOneDraw ==
    /\ \A t \in Threads :
          (Returned(t) /\ fn[t] \in Mappers) =>
              /\ call[t].nexch = 1
              /\ call[t].installed = randomicStep(call[t].replaced)
              /\ result[t] = MapValue(fn[t], call[t].installed.d)
    /\ (hist[1].seeded /\ ~InFlight(1)) =>
          /\ hist[1].nexch = hist[1].nret
          /\ hist[1].nexch = ncalls[1] + ncalls[2]

\* a mapper call has returned; the other thread has advanced the context
\* before the mapper's draw and again after it
C9_Witness ==
    /\ Returned(1) /\ fn[1] \in Mappers
    /\ ncalls[1] = 1 /\ call[1].pos > 1
    /\ hist[1].nexch > call[1].pos
    /\ rdic[1] # call[1].installed
    /\ result[1] = MapValue(fn[1], call[1].installed.d)

\* x < y for two integers held as halves
Less(x, y) == Hi(x) < Hi(y) \/ (Hi(x) = Hi(y) /\ Lo(x) < Lo(y))

\* C10: for every raw draw r the numerator of randomicFloatCO is r >> 8,
\* between 0 and 2^24 - 1, over 2^24 (so that draws give the same result
\* exactly when their upper 24 bits agree), the numerator of
\* randomicDoubleCO is r, below 2^32, over 2^32, and both results are exact
\* and lie in [0.0, 1.0).
C10_HalfOpenBelowOne ==
    LET raw == ntx[1].d
    IN  /\ fn[1] = "randomicFloatCO" =>
              /\ result[1].den = U32(256, 0)
              /\ Hi(result[1].num) = Hi(raw) \div 256
              /\ Lo(result[1].num) = (Hi(raw) % 256) * 256 + (Lo(raw) \div 256)
              /\ Hi(result[1].num) <= 255 /\ Lo(result[1].num) <= 65535
              /\ result[1].exact
              /\ Less(result[1].num, result[1].den)
        /\ fn[1] = "randomicDoubleCO" =>
              /\ result[1].den = U32(65536, 0)
              /\ result[1].num = raw
              /\ Hi(result[1].num) <= 65535 /\ Lo(result[1].num) <= 65535
              /\ result[1].exact
              /\ Less(result[1].num, result[1].den)

\* randomicFloatCO has converted the raw draw 0xFFFFFFFF to (2^24 - 1) / 2^24
C10_Witness ==
    /\ fn[1] = "randomicFloatCO"
    /\ ntx[1].d = U32(65535, 65535)
    /\ result[1].num = U32(255, 65535)
    /\ result[1].den = U32(256, 0)

\* |x - y| <= n for two integers held as halves that lie at most 2^16 apart
Near(x, y, n) ==
    LET diff == (Hi(x) - Hi(y)) * Half + (Lo(x) - Lo(y))
    IN  Hi(x) - Hi(y) \in {-1, 0, 1} /\ diff <= n /\ -diff <= n

\* C11: randomicFloatCC divides the raw draw, converted to float, by
\* UINT32_MAX converted to float (2^32): the result is exactly 1.0 for the
\* raw draw 0xFFFFFFFF, exactly 0.0 for the raw draw 0, and for every raw
\* draw it lies in [0.0, 1.0], its numerator being the raw draw rounded to 24
\* significant bits (at most 128 away from it).
C11_ClosedEndpoints ==
    LET raw == ntx[1].d
    IN  fn[1] = "randomicFloatCC" =>
            /\ result[1].den = U32(65536, 0)
            /\ raw = U32(65535, 65535) => (result[1].num = result[1].den /\ result[1].exact)
            /\ raw = U32(0, 0) => (result[1].num = U32(0, 0) /\ result[1].exact)
            /\ ~Less(result[1].den, result[1].num)
            /\ Near(result[1].num, raw, 128)
            /\ Hi(raw) < 256 => result[1].num = raw

\* randomicFloatCC has converted the raw draw 0xFFFFFFFF to 2^32 / 2^32
C11_Witness ==
    /\ fn[1] = "randomicFloatCC"
    /\ ntx[1].d = U32(65535, 65535)
    /\ result[1].num = U32(65536, 0)
    /\ result[1].den = U32(65536, 0)

\* bit k (0 .. 31) of a 32-bit word
Bit(x, k) == IF k < 16 THEN (Lo(x) \div (2^k)) % 2 ELSE (Hi(x) \div (2^(k - 16))) % 2

RECURSIVE BitSum(_, _, _)
BitSum(f, lo, hi) == IF lo > hi THEN 0 ELSE f[lo] + 2 * BitSum(f, lo + 1, hi)

\* the 32-bit word whose bits are f[0] .. f[31]
FromBits(f) == U32(BitSum(f, 16, 31), BitSum(f, 0, 15))

\* rotl(x, n): bit k of the result is bit k - n (modulo 32) of x
Rotl(x, n) == FromBits([k \in 0 .. 31 |-> Bit(x, (k + 32 - n) % 32)])

\* x xor y, bit by bit
BitXor(x, y) == FromBits([k \in 0 .. 31 |-> (Bit(x, k) + Bit(y, k)) % 2])

\* the carry into bit k of x + y
RECURSIVE Carry(_, _, _)
Carry(x, y, k) ==
    IF k = 0 THEN 0
    ELSE (Bit(x, k - 1) + Bit(y, k - 1) + Carry(x, y, k - 1)) \div 2

\* x + y modulo 2^32, by a ripple-carry adder that drops the carry out of bit 31
BitAdd(x, y) ==
    FromBits([k \in 0 .. 31 |-> (Bit(x, k) + Bit(y, k) + Carry(x, y, k)) % 2])

\* C12: randomicStep maps (a, b, c, d) to (a', b', c', d') with
\* e = a - rotl(b, 27), a' = b xor rotl(c, 17), b' = c + d, c' = d + e,
\* d' = e + a', all modulo 2^32, rotl a 32-bit left rotation; c' uses the
\* old d and d' the new a'.  The step of (0xf1ea5eed, 1, 1, 1) is
\* (0x00020001, 0x00000002, 0xe9ea5eee, 0xe9ec5eee).
C12_StepBitForBit ==
    LET s == ctx[1]
        n == ntx[1]
        r == Rotl(s.b, 27)
        e == Sub(s.a, r)
    IN  fn[1] = "randomicStep" =>
            /\ BitAdd(e, r) = s.a
            /\ n.a = BitXor(s.b, Rotl(s.c, 17))
            /\ n.b = BitAdd(s.c, s.d)
            /\ n.c = BitAdd(s.d, e)
            /\ n.d = BitAdd(e, n.a)
            /\ s = randomic_ctx(U32(61930, 24301), U32(0, 1), U32(0, 1), U32(0, 1)) =>
                   n = randomic_ctx(U32(2, 1), U32(0, 2), U32(59882, 24302), U32(59884, 24302))

\* randomicStep has been applied to a state whose words all differ, with
\* high bits that the rotations carry around and additions that wrap
C12_Witness ==
    /\ fn[1] = "randomicStep"
    /\ ctx[1] = randomic_ctx(U32(0, 1), U32(65535, 65535), U32(61930, 24301), U32(0, 0))
    /\ ntx[1].a # ctx[1].a
    /\ ntx[1].d = BitAdd(Sub(ctx[1].a, Rotl(ctx[1].b, 27)), ntx[1].a)

\* thread t makes an exchange attempt that changes what it holds
Attempt(t) ==
    /\ pc[t] = "next_cas"
    /\ pc'[t] # pc[t] \/ ntx'[t] # ntx[t] \/ ctx'[t] # ctx[t]

\* C13 as stated: an exchange attempt succeeds whenever the context's state
\* equals the value the thread holds and fails only when it differs; a
\* failure refreshes the held value, and every attempt computes the candidate
\* as the step of the held value.
C13_SucceedsWheneverEqual ==
    [][\A t \in Threads :
          Attempt(t) =>
              /\ ntx'[t] = randomicStep(ctx[t])
              /\ rdic[arg[t]] = ctx[t] =>
                     (pc'[t] = "next_ret" /\ rdic'[arg[t]] = randomicStep(ctx[t]))
              /\ rdic[arg[t]] # ctx[t] =>
                     (pc'[t] = "next_cas" /\ rdic' = rdic /\ ctx'[t] = rdic[arg[t]])]_vars

\* C13 as amended: an exchange attempt succeeds only when the context's
\* state equals the value the thread holds, and always fails when it differs;
\* the weak exchange may also fail while they are equal.  A success installs
\* the candidate; a failure leaves the context alone and puts its current
\* state into the held value; every attempt computes the candidate as the
\* step of the held value, and the thread never goes back to a load.
C13_SucceedsOnlyIfEqual ==
    [][\A t \in Threads :
          Attempt(t) =>
              /\ ntx'[t] = randomicStep(ctx[t])
              /\ pc'[t] \in {"next_cas", "next_ret"}
              /\ pc'[t] = "next_ret" =>
                     /\ rdic[arg[t]] = ctx[t]
                     /\ rdic'[arg[t]] = ntx'[t]
                     /\ ctx'[t] = ctx[t]
              /\ pc'[t] = "next_cas" =>
                     (rdic' = rdic /\ ctx'[t] = rdic[arg[t]])
              /\ rdic[arg[t]] # ctx[t] => pc'[t] = "next_cas"]_vars

\* one thread's exchange has succeeded with a candidate recomputed from the
\* state a failed attempt gave it, and another thread's attempt has failed
\* although the context still holds the state that thread holds
C13_Witness ==
    \E t \in Threads, u \in Threads :
        /\ pc[t] = "next_ret" /\ call[t].failed /\ call[t].pos > 1
        /\ ntx[t] = randomicStep(call[t].replaced)
        /\ pc[u] = "next_cas" /\ ~call[u].failed
        /\ ctx[u] = rdic[arg[u]]
        /\ ntx[u] = randomicStep(ctx[u])

\* C14: a failed exchange attempt changes only the failing thread's own ctx
\* and ntx: every context keeps its state, nothing is returned to any
\* caller, no thread moves, and the other threads' locals stay as they are.
C14_FailedAttemptNoEffect ==
    [][\A t \in Threads :
          (Attempt(t) /\ pc'[t] = "next_cas") =>
              /\ rdic' = rdic
              /\ result' = result
              /\ pc' = pc /\ fn' = fn /\ arg' = arg
              /\ seed' = seed /\ i' = i
              /\ \A u \in Threads \ {t} : ctx'[u] = ctx[u] /\ ntx'[u] = ntx[u]
              /\ \A c \in Contexts :
                     /\ hist'[c].nexch = hist[c].nexch
                     /\ hist'[c].nret = hist[c].nret
                     /\ hist'[c].rets = hist[c].rets]_vars

\* an attempt of thread t has failed on a context another thread had
\* advanced: t holds the context's state and a candidate that is out of
\* date, and has returned nothing
C14_Witness ==
    \E t \in Threads :
        /\ pc[t] = "next_cas"
        /\ call[t].failed
        /\ result[t] = NoResult
        /\ ctx[t] = rdic[arg[t]]
        /\ ntx[t] # randomicStep(ctx[t])
        /\ hist[arg[t]].nexch > 0

\* thread t's compare-and-exchange on context c succeeds in this step
ExchangeBy(t, c) ==
    /\ pc[t] = "next_cas" /\ pc'[t] = "next_ret"
    /\ arg[t] = c
    /\ rdic[c] = ctx[t]
    /\ rdic'[c] = randomicStep(ctx[t])

\* thread t's randomicSeed stores into context c in this step
StoreBy(t, c) ==
    /\ pc[t] = "seed_loop" /\ pc'[t] = "idle"
    /\ arg[t] = c
    /\ i[t] = 20
    /\ rdic'[c] = ctx[t]

\* C15 as stated: every change of a context's state is the effect of a
\* successful compare-and-exchange of randomicNext.
C15_OnlyExchangeMutates ==
    [][\A c \in Contexts :
          rdic'[c] # rdic[c] => \E t \in Threads : ExchangeBy(t, c)]_vars

\* C15 as amended: every change of a context's state is the effect either of
\* a successful compare-and-exchange of randomicNext or of the one
\* atomic_store that ends a randomicSeed call on that context.
C15_ExchangeOrSeedMutates ==
    [][\A c \in Contexts :
          rdic'[c] # rdic[c] =>
              \E t \in Threads : ExchangeBy(t, c) \/ StoreBy(t, c)]_vars

\* a context advanced by exchanges has been given another state by a
\* second randomicSeed and advanced by an exchange again
C15_Witness ==
    /\ prev[1].seeded /\ prev[1].nexch > 0
    /\ hist[1].nexch > 0
    /\ hist[1].S0 # prev[1].S0
    /\ rdic[1] # hist[1].S0

\* C16: the states installed by the successful exchanges on the shared
\* seeded context are pairwise distinct; there is one per successful
\* exchange, N*M of them when each of the N threads has completed its M
\* calls, and each call's installed state is the one at its position.
C16_InstalledDistinct ==
    hist[1].seeded =>
        /\ Len(hist[1].chain) = hist[1].nexch
        /\ \A p \in 1 .. Len(hist[1].chain), q \in 1 .. Len(hist[1].chain) :
               p < q => hist[1].chain[p] # hist[1].chain[q]
        /\ ~InFlight(1) => Len(hist[1].chain) = TotalCalls
        /\ \A t \in Threads :
               call[t].nexch = 1 => hist[1].chain[call[t].pos] = call[t].installed

\* every draw allowed has been completed, with exchanges of every thread
C16_Witness ==
    /\ hist[1].seeded /\ ~InFlight(1)
    /\ Len(hist[1].chain) = MaxDraws
    /\ \A t \in Threads : call[t].nexch = 1
    /\ \E t \in Threads, u \in Threads : call[t].installed # call[u].installed

\* C17: a randomicNext call invoked after other calls on the context have
\* returned installs its state strictly later in the chain of installed
\* states than every one of those calls (floor is the greatest position
\* returned before the invocation, a thread's own earlier draws included):
\* the state it installs occurs in the chain only after position floor.
C17_RealTimeOrder ==
    hist[1].seeded =>
        \A t \in Threads :
            pc[t] = "next_ret" =>
                /\ call[t].pos > call[t].floor
                /\ \A q \in 1 .. Len(hist[1].chain) :
                       hist[1].chain[q] = call[t].installed => q > call[t].floor

\* a thread's second call was invoked after a call of another thread had
\* returned from a later position than the thread's own first call, and has
\* installed its state
C17_Witness ==
    \E t \in Threads :
        /\ ncalls[t] = 2
        /\ pc[t] = "next_ret"
        /\ call[t].floor >= 2
        /\ call[t].pos > call[t].floor
        /\ \E u \in Threads \ {t} : Returned(u) /\ call[u].pos = call[t].floor

\* C18: a completed seed is not undone by a stale advance: an exchange
\* succeeds only for a thread that holds the context's current state, so a
\* thread that holds a pre-seed state installs nothing over the seeded state
\* S0, and every state installed after the seed's store is step^k(S0), k >= 1
\* being the number of exchanges since that store.
C18_SeedNotUndone ==
    [][/\ \A t \in Threads :
             (pc[t] = "next_cas" /\ pc'[t] = "next_ret") =>
                 /\ ctx[t] = rdic[arg[t]]
                 /\ rdic'[arg[t]] = randomicStep(rdic[arg[t]])
       /\ \A c \in Contexts :
             (hist[c].seeded /\ rdic'[c] # rdic[c]) =>
                 \/ /\ hist'[c].nexch = 0
                    /\ rdic'[c] = hist'[c].S0
                    /\ \E t \in Threads : pc[t] = "seed_loop" /\ pc'[t] = "idle"
                 \/ /\ hist'[c].nexch = hist[c].nexch + 1
                    /\ hist'[c].S0 = hist[c].S0
                    /\ rdic'[c] = StepN(hist'[c].nexch, hist'[c].S0)
                    /\ hist'[c].chain[hist'[c].nexch] = rdic'[c]]_vars

\* thread 2 had read the context before a second randomicSeed stored another
\* seeded state; its attempt with the pre-seed state failed, and its exchange
\* has then replaced the seeded state S0 by step(S0)
C18_Witness ==
    /\ pc[2] = "next_ret"
    /\ call[2].failed
    /\ call[2].pos = 1
    /\ call[2].replaced = hist[1].S0
    /\ call[2].installed = randomicStep(hist[1].S0)
    /\ ~hist[1].clean
    /\ prev[1].seeded /\ prev[1].S0 # hist[1].S0

\* C19: with finitely many calls and threads that keep being scheduled,
\* every randomicNext call returns: a thread that is inside randomicNext is
\* eventually back at its caller with the call's value.
C19_EveryCallReturns ==
    \A t \in Threads :
        (pc[t] \in {"next_load", "next_cas", "next_ret"}) ~> Returned(t)

\* the last call is about to return after an attempt of it had failed, all
\* the other calls having returned
C19_Witness ==
    \E t \in Threads :
        /\ pc[t] = "next_ret"
        /\ call[t].failed
        /\ TotalCalls = MaxFairDraws
        /\ hist[1].nret = MaxFairDraws - 1
        /\ \A u \in Threads \ {t} : pc[u] = "idle"

\* C20: (0, 0, 0, 0) is a fixed point of randomicStep: randomicNext on a
\* zeroed context that was never seeded returns 0 on every call and leaves
\* the state (0, 0, 0, 0); a context seeded by randomicSeed never holds
\* (0, 0, 0, 0), neither after the seeding nor after any draw, and no state
\* of the warm-up is (0, 0, 0, 0).
C20_ZeroFixedPoint ==
    /\ randomicStep(ZeroCtx) = ZeroCtx
    /\ ~hist[1].seeded =>
          /\ rdic[1] = ZeroCtx
          /\ \A x \in hist[1].rets : x[2] = Zero
          /\ \A t \in Threads :
                 (Returned(t) /\ arg[t] = 1) => result[t] = Zero
          /\ \A k \in 1 .. Len(hist[1].chain) : hist[1].chain[k] = ZeroCtx
    /\ \A c \in Contexts :
          hist[c].seeded =>
              /\ rdic[c] # ZeroCtx
              /\ \A k \in 1 .. Len(hist[c].chain) : hist[c].chain[k] # ZeroCtx
    /\ \A t \in Threads : pc[t] = "seed_loop" => ctx[t] # ZeroCtx

\* two draws from the zeroed context have returned 0 and left it zero, and
\* the context seeded with 0 has been drawn from
C20_Witness ==
    /\ ~hist[1].seeded
    /\ hist[1].nret >= 2
    /\ rdic[1] = ZeroCtx
    /\ \E t \in Threads : Returned(t) /\ arg[t] = 1 /\ result[t] = Zero
    /\ hist[2].seeded /\ hist[2].seed = Zero
    /\ hist[2].nret >= 1
    /\ rdic[2] # ZeroCtx

====
